---- MODULE Spec2Model ----
(***************************************************************************)
(* A model of the annotation tool of src/a.py: a Streamlit script that is  *)
(* re-run from top to bottom on every user interaction.  The state is the  *)
(* widget state Streamlit keeps between runs (format selectbox, uploader,  *)
(* label text area, image selectbox, the drawable canvas keyed "canvas",   *)
(* the per-box selectboxes keyed "label_<i>") and the files the script     *)
(* writes.  Text is modelled as sequences of one-character strings so that *)
(* what the script formats can be read back and measured.                  *)
(***************************************************************************)
EXTENDS Integers, Sequences, FiniteSets, TLC

VARIABLES
    uploaded_files,       \* file_uploader value: sequence of [name, width, height]
    selected_image_name,  \* value of the image selectbox
    annotation_format,    \* value of the format selectbox
    labels_input,         \* content of the label text area
    canvas,               \* objects held by the canvas component (key "canvas")
    label_widgets,        \* values of the selectboxes keyed "label_<i>"
    origin,               \* history: the image selected when box i was drawn / label i set
    jsonFiles,            \* annotations/<base>.json
    txtFiles,             \* annotations/<base>.txt
    imageFiles,           \* names present in annotated_images/
    lastSave,             \* history: the most recent Save Annotation run per base name
    savedFor,             \* history: the record of the most recent completed save per image
    anyFailed,            \* history: some Save Annotation run raised
    steps                 \* number of user interactions so far

vars == <<uploaded_files, selected_image_name, annotation_format, labels_input,
          canvas, label_widgets, origin, jsonFiles, txtFiles, imageFiles, lastSave,
          savedFor, anyFailed, steps>>

\* Length of a session: the number of user interactions that are explored.
MaxSteps == 5

\* The number of digits of the format specification ".6f".
Decimals == 6

-----------------------------------------------------------------------------
(* Text                                                                    *)

Range(s) == {s[i] : i \in 1..Len(s)}

\* The TLA+ string spelled by a sequence of characters.
RECURSIVE Str(_)
Str(cs) == IF cs = <<>> THEN "" ELSE Head(cs) \o Str(Tail(cs))

DigitChars == <<"0", "1", "2", "3", "4", "5", "6", "7", "8", "9">>

RECURSIVE NatChars(_)
NatChars(n) == IF n < 10 THEN <<DigitChars[n + 1]>>
               ELSE NatChars(n \div 10) \o <<DigitChars[(n % 10) + 1]>>

\* str(n) / f"{n}" of a Python int.
IntChars(n) == IF n < 0 THEN <<"-">> \o NatChars(0 - n) ELSE NatChars(n)

RECURSIVE Pow10(_)
Pow10(k) == IF k = 0 THEN 1 ELSE 10 * Pow10(k - 1)

\* The last k decimal digits of n, zero padded.
RECURSIVE PadChars(_, _)
PadChars(n, k) == IF k = 0 THEN <<>>
                  ELSE PadChars(n \div 10, k - 1) \o <<DigitChars[(n % 10) + 1]>>

Whitespace == {" ", "\t", "\n"}

\* str.strip()
RECURSIVE LStrip(_)
LStrip(cs) == IF cs # <<>> /\ Head(cs) \in Whitespace THEN LStrip(Tail(cs)) ELSE cs

RECURSIVE RStrip(_)
RStrip(cs) == IF cs # <<>> /\ cs[Len(cs)] \in Whitespace
              THEN RStrip(SubSeq(cs, 1, Len(cs) - 1)) ELSE cs

Strip(cs) == RStrip(LStrip(cs))

\* str.splitlines(): lines end at "\n"; no empty last line after a final "\n".
RECURSIVE SplitLinesFrom(_, _, _)
SplitLinesFrom(cs, cur, acc) ==
    IF cs = <<>> THEN (IF cur = <<>> THEN acc ELSE Append(acc, cur))
    ELSE IF Head(cs) = "\n" THEN SplitLinesFrom(Tail(cs), <<>>, Append(acc, cur))
    ELSE SplitLinesFrom(Tail(cs), Append(cur, Head(cs)), acc)

SplitLines(cs) == SplitLinesFrom(cs, <<>>, <<>>)

\* os.path.splitext on a name without directory separators: the extension
\* starts at the last dot, unless only dots precede it.
DotIndexes(p) == {i \in 1..Len(p) : p[i] = "."}

Splitext(p) ==
    IF DotIndexes(p) = {} THEN <<p, <<>>>>
    ELSE LET dotIndex == CHOOSE i \in DotIndexes(p) : \A j \in DotIndexes(p) : j <= i
         IN  IF \E j \in 1..(dotIndex - 1) : p[j] # "."
             THEN <<SubSeq(p, 1, dotIndex - 1), SubSeq(p, dotIndex, Len(p))>>
             ELSE <<p, <<>>>>

BaseFilename(image_name) == Splitext(image_name)[1]

-----------------------------------------------------------------------------
(* Labels and annotations                                                  *)

ObjectLabel == <<"o", "b", "j", "e", "c", "t">>
PascalVOC   == <<"P", "a", "s", "c", "a", "l", " ", "V", "O", "C">>
YOLO        == <<"Y", "O", "L", "O">>

StripAll(lines) == [i \in 1..Len(lines) |-> Strip(lines[i])]
NonEmpty(cs) == cs # <<>>

\* custom_labels: the stripped, non-empty lines of the text area, in order.
CustomLabels(input) == SelectSeq(StripAll(SplitLines(input)), NonEmpty)

DefaultLabel(custom_labels) ==
    IF custom_labels # <<>> THEN custom_labels[1] ELSE ObjectLabel

\* Mutant of Options: the fallback label is offered next to the custom labels.
OptionsWithObject(custom_labels) == <<ObjectLabel>> \o custom_labels

\* The options offered by every "label_<i>" selectbox.
Options(custom_labels) ==
    IF custom_labels # <<>> THEN custom_labels ELSE <<DefaultLabel(custom_labels)>>

\* dict.get(key, default)
Get(obj, key, default) == IF key \in DOMAIN obj THEN obj[key] ELSE default

IsRect(obj) == Get(obj, "type", "") = "rect"
BoundingBoxes(objects) == SelectSeq(objects, IsRect)

\* assigned_annotations: one entry per bounding box, with the value of its
\* selectbox.
AssignedAnnotations(bounding_boxes, label_choice) ==
    [i \in 1..Len(bounding_boxes) |->
        [label  |-> label_choice[i],
         x      |-> Get(bounding_boxes[i], "left", 0),
         y      |-> Get(bounding_boxes[i], "top", 0),
         width  |-> Get(bounding_boxes[i], "width", 0),
         height |-> Get(bounding_boxes[i], "height", 0)]]

AnnotationData(image_name, format, custom_labels, assigned_annotations) ==
    [image_name        |-> image_name,
     annotation_format |-> format,
     custom_labels     |-> custom_labels,
     annotations       |-> assigned_annotations]

-----------------------------------------------------------------------------
(* json.dump and json.load, on the token level: a JSON text is the         *)
(* sequence of its punctuation marks, string literals and numbers.         *)

Punct(c)  == [t |-> "punct", s |-> <<c>>, n |-> 0]
StrTok(s) == [t |-> "str", s |-> s, n |-> 0]
NumTok(n) == [t |-> "num", s |-> <<>>, n |-> n]

K_image_name == <<"i", "m", "a", "g", "e", "_", "n", "a", "m", "e">>
K_annotation_format ==
    <<"a", "n", "n", "o", "t", "a", "t", "i", "o", "n", "_", "f", "o", "r", "m", "a", "t">>
K_custom_labels ==
    <<"c", "u", "s", "t", "o", "m", "_", "l", "a", "b", "e", "l", "s">>
K_annotations == <<"a", "n", "n", "o", "t", "a", "t", "i", "o", "n", "s">>
K_label  == <<"l", "a", "b", "e", "l">>
K_x      == <<"x">>
K_y      == <<"y">>
K_width  == <<"w", "i", "d", "t", "h">>
K_height == <<"h", "e", "i", "g", "h", "t">>

\* The items of a list or of an object, separated by commas.
RECURSIVE JoinComma(_)
JoinComma(parts) ==
    IF parts = <<>> THEN <<>>
    ELSE IF Len(parts) = 1 THEN parts[1]
    ELSE parts[1] \o <<Punct(",")>> \o JoinComma(Tail(parts))

DumpList(items)  == <<Punct("[")>> \o JoinComma(items) \o <<Punct("]")>>
DumpObject(members) == <<Punct("{")>> \o JoinComma(members) \o <<Punct("}")>>
Member(key, value) == <<StrTok(key), Punct(":")>> \o value

\* Mutant of DumpAnnotation: the values of x and y change places.
DumpAnnotationSwapped(ann) ==
    DumpObject(<<Member(K_label, <<StrTok(ann.label)>>),
                 Member(K_x, <<NumTok(ann.y)>>),
                 Member(K_y, <<NumTok(ann.x)>>),
                 Member(K_width, <<NumTok(ann.width)>>),
                 Member(K_height, <<NumTok(ann.height)>>)>>)

DumpAnnotation(ann) ==
    DumpObject(<<Member(K_label, <<StrTok(ann.label)>>),
                 Member(K_x, <<NumTok(ann.x)>>),
                 Member(K_y, <<NumTok(ann.y)>>),
                 Member(K_width, <<NumTok(ann.width)>>),
                 Member(K_height, <<NumTok(ann.height)>>)>>)

\* json.dump(annotation_data, f): members in the dict's insertion order.
Dump(data) ==
    DumpObject(<<
        Member(K_image_name, <<StrTok(data.image_name)>>),
        Member(K_annotation_format, <<StrTok(data.annotation_format)>>),
        Member(K_custom_labels,
               DumpList([i \in 1..Len(data.custom_labels) |->
                            <<StrTok(data.custom_labels[i])>>])),
        Member(K_annotations,
               DumpList([i \in 1..Len(data.annotations) |->
                            DumpAnnotation(data.annotations[i])]))>>)

\* json.load: a recursive-descent reader.  Each reader returns the value
\* read and the index of the first token after it.
RECURSIVE ParseValue(_, _), ParseElements(_, _, _), ParseMembers(_, _, _)
ParseValue(toks, i) ==
    IF toks[i].t = "str" THEN [v |-> toks[i].s, i |-> i + 1]
    ELSE IF toks[i].t = "num" THEN [v |-> toks[i].n, i |-> i + 1]
    ELSE IF toks[i] = Punct("[") THEN
        (IF toks[i + 1] = Punct("]") THEN [v |-> <<>>, i |-> i + 2]
         ELSE ParseElements(toks, i + 1, <<>>))
    ELSE \* "{"
        (IF toks[i + 1] = Punct("}") THEN [v |-> <<>>, i |-> i + 2]
         ELSE ParseMembers(toks, i + 1, <<>>))

ParseElements(toks, i, acc) ==
    LET e == ParseValue(toks, i)
    IN  IF toks[e.i] = Punct(",") THEN ParseElements(toks, e.i + 1, Append(acc, e.v))
        ELSE [v |-> Append(acc, e.v), i |-> e.i + 1]

ParseMembers(toks, i, acc) ==
    LET key == Str(toks[i].s)
        m   == ParseValue(toks, i + 2)
        obj == IF acc = <<>> THEN key :> m.v ELSE (key :> m.v) @@ acc
    IN  IF toks[m.i] = Punct(",") THEN ParseMembers(toks, m.i + 1, obj)
        ELSE [v |-> obj, i |-> m.i + 1]

Load(toks) == ParseValue(toks, 1).v

-----------------------------------------------------------------------------
(* The TXT export                                                          *)

\* list.index(v): the 0-based position of the first element equal to v, or
\* ValueError.
ValueError == -1

RECURSIVE IndexFrom(_, _, _)
IndexFrom(list, v, i) ==
    IF i > Len(list) THEN ValueError
    ELSE IF list[i] = v THEN i - 1
    ELSE IndexFrom(list, v, i + 1)

\* Mutant of ClassIndex: positions counted from 1.
ClassIndexOneBased(custom_labels, label) ==
    LET found == IndexFrom(custom_labels, label, 1)
    IN  IF found = ValueError THEN 0 ELSE found + 1

ClassIndex(custom_labels, label) ==
    LET found == IndexFrom(custom_labels, label, 1)
    IN  IF found = ValueError THEN 0 ELSE found

\* The four quotients of the YOLO branch, as exact fractions of integers.
CenterX(x, w_box, width)  == [num |-> 2 * x + w_box, den |-> 2 * width]
CenterY(y, h_box, height) == [num |-> 2 * y + h_box, den |-> 2 * height]
NormW(w_box, width)       == [num |-> w_box, den |-> width]
NormH(h_box, height)      == [num |-> h_box, den |-> height]

\* Mutant of RoundHalfEven: the digits after the last place are cut off.
RoundDown(n, d) == n \div d

\* n / d rounded to the nearest integer, ties to even (n >= 0, d > 0).
RoundHalfEven(n, d) ==
    LET q == n \div d
        r == n % d
    IN  IF 2 * r > d THEN q + 1
        ELSE IF 2 * r < d THEN q
        ELSE IF q % 2 = 0 THEN q ELSE q + 1

\* f"{q:.6f}" for a fraction q >= 0: the value rounded to Decimals places.
\* (A float is the nearest double to the fraction; for the image sizes
\* explored no fraction lies within a double's error of a rounding tie.)
FormatFixed(q) ==
    LET scaled == RoundHalfEven(q.num * Pow10(Decimals), q.den)
    IN  IntChars(scaled \div Pow10(Decimals)) \o <<".">>
        \o PadChars(scaled % Pow10(Decimals), Decimals)

YoloLine(ann, custom_labels, width, height) ==
    IntChars(ClassIndex(custom_labels, ann.label)) \o <<" ">>
    \o FormatFixed(CenterX(ann.x, ann.width, width)) \o <<" ">>
    \o FormatFixed(CenterY(ann.y, ann.height, height)) \o <<" ">>
    \o FormatFixed(NormW(ann.width, width)) \o <<" ">>
    \o FormatFixed(NormH(ann.height, height))

VocHeader == <<"P", "a", "s", "c", "a", "l", " ", "V", "O", "C", " ", "a", "n", "n", "o", "t", "a", "t", "i", "o", "n", " ", "s", "u", "m", "m", "a", "r", "y", ":">>
T_Label   == <<"L", "a", "b", "e", "l", ":", " ">>
T_x       == <<",", " ", "C", "o", "o", "r", "d", "i", "n", "a", "t", "e", "s", ":", " ", "(", "x", ":", " ">>
T_y       == <<",", " ", "y", ":", " ">>
T_width   == <<",", " ", "w", "i", "d", "t", "h", ":", " ">>
T_height  == <<",", " ", "h", "e", "i", "g", "h", "t", ":", " ">>
T_close   == <<")">>

\* Mutant of VocLine: width and height change places.
VocLineSwapped(ann) ==
    T_Label \o ann.label \o T_x \o IntChars(ann.x) \o T_y \o IntChars(ann.y)
    \o T_width \o IntChars(ann.height) \o T_height \o IntChars(ann.width) \o T_close

VocLine(ann) ==
    T_Label \o ann.label \o T_x \o IntChars(ann.x) \o T_y \o IntChars(ann.y)
    \o T_width \o IntChars(ann.width) \o T_height \o IntChars(ann.height) \o T_close

\* What the "with open(txt_annotation_file, 'w')" block leaves in the file,
\* a sequence of lines, and the exception that ended it ("" for none).  The
\* first division by a zero width or height raises before the first line is
\* written.
ExportText(format, assigned_annotations, custom_labels, width, height) ==
    IF format = YOLO THEN
        IF assigned_annotations # <<>> /\ (width = 0 \/ height = 0)
        THEN [lines |-> <<>>, error |-> "ZeroDivisionError"]
        ELSE [lines |-> [i \in 1..Len(assigned_annotations) |->
                            YoloLine(assigned_annotations[i], custom_labels, width, height)],
              error |-> ""]
    ELSE [lines |-> <<VocHeader>> \o [i \in 1..Len(assigned_annotations) |->
                                        VocLine(assigned_annotations[i])],
          error |-> ""]

-----------------------------------------------------------------------------
(* Inputs                                                                  *)

\* The batch of images handed to the uploader: two names that share a base
\* name, and one image without width.
Uploads ==
    << [name |-> <<"a", ".", "p", "n", "g">>, width |-> 200, height |-> 100],
       [name |-> <<"a", ".", "j", "p", "g">>, width |-> 60, height |-> 30],
       [name |-> <<"b", ".", "p", "n", "g">>, width |-> 0, height |-> 100] >>

\* Contents typed into the label text area.
LabelInputs ==
    { <<"o", "b", "j", "e", "c", "t">>,
      <<" ", "\n">>,
      <<"c", "a", "t", "\n", "d", "o", "g">>,
      <<" ", "c", "a", "t", "\n", "\n", "d", "o", "g", " ", "\n", "d", "o", "g">> }

\* Rectangles the user drags on the canvas.
BoxChoices ==
    { [type |-> "rect", left |-> 10, top |-> 20, width |-> 100, height |-> 50],
      [type |-> "rect", left |-> 5, top |-> 5, width |-> 20, height |-> 30] }

\* Which write of a save the storage refuses (OSError), if any.
Failures == {"none", "json", "image", "txt"}

ImageNames == {Uploads[i].name : i \in 1..Len(Uploads)}
BaseNames  == {BaseFilename(n) : n \in ImageNames}

-----------------------------------------------------------------------------
(* State                                                                   *)

NoFile == [exists |-> FALSE, content |-> <<>>]

\* Mutant of WriteFile: the file is opened for appending.
AppendFile(old, content) == [exists |-> TRUE, content |-> old.content \o content]

\* open(path, "w") ... write: the file holds what this run wrote, whatever
\* it held before.
WriteFile(old, content) == [exists |-> TRUE, content |-> content]

NoSave ==
    [attempted |-> FALSE, image_name |-> <<>>, width |-> 0, height |-> 0,
     data |-> AnnotationData(<<>>, <<>>, <<>>, <<>>), origin |-> <<>>,
     injected |-> "none", written |-> {}, error |-> ""]

NoRecord == [exists |-> FALSE, data |-> AnnotationData(<<>>, <<>>, <<>>, <<>>)]

\* The state after the first run of the script: nothing uploaded, format
\* index 0, the text area's default value.
Init ==
    /\ uploaded_files = <<>>
    /\ selected_image_name = <<>>
    /\ annotation_format = PascalVOC
    /\ labels_input = <<"o", "b", "j", "e", "c", "t">>
    /\ canvas = <<>>
    /\ label_widgets = <<>>
    /\ origin = <<>>
    /\ jsonFiles = [b \in BaseNames |-> NoFile]
    /\ txtFiles = [b \in BaseNames |-> NoFile]
    /\ imageFiles = {}
    /\ lastSave = [b \in BaseNames |-> NoSave]
    /\ savedFor = [n \in ImageNames |-> NoRecord]
    /\ anyFailed = FALSE
    /\ steps = 0

custom_labels == CustomLabels(labels_input)

\* next((f for f in uploaded_files if f.name == selected_image_name), None)
SelectedFile ==
    LET hits == {i \in 1..Len(uploaded_files) : uploaded_files[i].name = selected_image_name}
    IN  uploaded_files[CHOOSE i \in hits : \A j \in hits : i <= j]

Files == <<jsonFiles, txtFiles, imageFiles>>
History == <<lastSave, savedFor, anyFailed>>

-----------------------------------------------------------------------------
(* User interactions; each one is a run of the script.                     *)

\* The uploader receives the batch; the image selectbox shows its first name.
Upload ==
    /\ uploaded_files = <<>>
    /\ uploaded_files' = Uploads
    /\ selected_image_name' = Uploads[1].name
    /\ UNCHANGED <<annotation_format, labels_input, canvas, label_widgets, origin,
                   Files, History, steps>>

\* Another image is picked.  The canvas and the label selectboxes are keyed
\* "canvas" and "label_<i>", whatever the image, and nothing resets them.
SelectImage(name) ==
    /\ steps < MaxSteps
    /\ uploaded_files # <<>>
    /\ name \in {uploaded_files[i].name : i \in 1..Len(uploaded_files)}
    /\ name # selected_image_name
    /\ selected_image_name' = name
    /\ steps' = steps + 1
    /\ UNCHANGED <<uploaded_files, annotation_format, labels_input, canvas,
                   label_widgets, origin, Files, History>>

SetFormat(format) ==
    /\ steps < MaxSteps
    /\ format # annotation_format
    /\ annotation_format' = format
    /\ steps' = steps + 1
    /\ UNCHANGED <<uploaded_files, selected_image_name, labels_input, canvas,
                   label_widgets, origin, Files, History>>

\* A selectbox whose options changed either starts again at its first option
\* (widget identity by parameters) or keeps a value that is still an option
\* (widget identity by key): both Streamlit behaviours are explored.
RevalidatedWidgets(options, keep) ==
    [i \in 1..Len(label_widgets) |->
        IF keep /\ label_widgets[i] \in Range(options) THEN label_widgets[i] ELSE options[1]]

SetLabels(input) ==
    /\ steps < MaxSteps
    /\ input # labels_input
    /\ labels_input' = input
    /\ \E keep \in BOOLEAN :
        LET options == Options(CustomLabels(input))
            widgets == IF options = Options(custom_labels) THEN label_widgets
                       ELSE RevalidatedWidgets(options, keep)
        IN  /\ label_widgets' = widgets
            /\ origin' = [i \in 1..Len(origin) |->
                            IF widgets[i] = label_widgets[i] THEN origin[i]
                            ELSE [origin[i] EXCEPT !.label = selected_image_name]]
    /\ steps' = steps + 1
    /\ UNCHANGED <<uploaded_files, selected_image_name, annotation_format, canvas,
                   Files, History>>

\* A rectangle is dragged on the canvas, inside the displayed image; its
\* selectbox appears with the first option.
DrawBox(box) ==
    /\ steps < MaxSteps
    /\ uploaded_files # <<>>
    /\ box.left >= 0 /\ box.top >= 0 /\ box.width > 0 /\ box.height > 0
    /\ box.left + box.width <= SelectedFile.width
    /\ box.top + box.height <= SelectedFile.height
    /\ canvas' = Append(canvas, box)
    /\ label_widgets' = Append(label_widgets, Options(custom_labels)[1])
    /\ origin' = Append(origin, [box |-> selected_image_name, label |-> selected_image_name])
    /\ steps' = steps + 1
    /\ UNCHANGED <<uploaded_files, selected_image_name, annotation_format,
                   labels_input, Files, History>>

\* The canvas toolbar's bin: no objects, so no selectbox is rendered and
\* their state is dropped.
ClearCanvas ==
    /\ steps < MaxSteps
    /\ canvas # <<>>
    /\ canvas' = <<>>
    /\ label_widgets' = <<>>
    /\ origin' = <<>>
    /\ steps' = steps + 1
    /\ UNCHANGED <<uploaded_files, selected_image_name, annotation_format,
                   labels_input, Files, History>>

ChooseLabel(i, label) ==
    /\ steps < MaxSteps
    /\ uploaded_files # <<>>
    /\ i \in 1..Len(label_widgets)
    /\ label \in Range(Options(custom_labels))
    /\ label # label_widgets[i]
    /\ label_widgets' = [label_widgets EXCEPT ![i] = label]
    /\ origin' = [origin EXCEPT ![i].label = selected_image_name]
    /\ steps' = steps + 1
    /\ UNCHANGED <<uploaded_files, selected_image_name, annotation_format,
                   labels_input, canvas, Files, History>>

\* The "Save Annotation" button: the JSON file, then the image copy, then
\* the TXT file.  An exception ends the run where it is raised.
SaveAnnotation(fail) ==
    /\ steps < MaxSteps
    /\ uploaded_files # <<>>
    /\ BoundingBoxes(canvas) # <<>>
    /\ LET width  == SelectedFile.width
           height == SelectedFile.height
           assigned_annotations ==
               AssignedAnnotations(BoundingBoxes(canvas), label_widgets)
           annotation_data ==
               AnnotationData(selected_image_name, annotation_format,
                              custom_labels, assigned_annotations)
           base_filename == BaseFilename(selected_image_name)
           export == ExportText(annotation_format, assigned_annotations,
                                custom_labels, width, height)
           error == IF fail # "none" THEN "OSError" ELSE export.error
           written == CASE fail = "json"  -> {}
                        [] fail = "image" -> {"json"}
                        [] fail = "txt"   -> {"json", "image"}
                        [] OTHER          -> {"json", "image", "txt"}
       IN  /\ jsonFiles' = IF "json" \in written
                           THEN [jsonFiles EXCEPT ![base_filename] =
                                    WriteFile(@, Dump(annotation_data))]
                           ELSE jsonFiles
           /\ imageFiles' = IF "image" \in written
                            THEN imageFiles \cup {selected_image_name}
                            ELSE imageFiles
           /\ txtFiles' = IF "txt" \in written
                          THEN [txtFiles EXCEPT ![base_filename] =
                                    WriteFile(@, export.lines)]
                          ELSE txtFiles
           /\ lastSave' = [lastSave EXCEPT ![base_filename] =
                              [attempted |-> TRUE, image_name |-> selected_image_name,
                               width |-> width, height |-> height,
                               data |-> annotation_data, origin |-> origin,
                               injected |-> fail, written |-> written, error |-> error]]
           /\ savedFor' = IF error = ""
                          THEN [savedFor EXCEPT ![selected_image_name] =
                                   [exists |-> TRUE, data |-> annotation_data]]
                          ELSE savedFor
           /\ anyFailed' = (anyFailed \/ error # "")
    /\ steps' = steps + 1
    /\ UNCHANGED <<uploaded_files, selected_image_name, annotation_format,
                   labels_input, canvas, label_widgets, origin>>

Next ==
    \/ Upload
    \/ \E name \in ImageNames : SelectImage(name)
    \/ \E format \in {PascalVOC, YOLO} : SetFormat(format)
    \/ \E input \in LabelInputs : SetLabels(input)
    \/ \E box \in BoxChoices : DrawBox(box)
    \/ ClearCanvas
    \/ \E i \in 1..MaxSteps, label \in UNION {Range(CustomLabels(l)) : l \in LabelInputs} :
          ChooseLabel(i, label)
    \/ \E fail \in Failures : SaveAnnotation(fail)

Spec == Init /\ [][Next]_vars

-----------------------------------------------------------------------------
(* Reading written text back                                               *)

RECURSIVE SplitFrom(_, _, _, _)
SplitFrom(cs, sep, cur, acc) ==
    IF cs = <<>> THEN Append(acc, cur)
    ELSE IF Head(cs) = sep THEN SplitFrom(Tail(cs), sep, <<>>, Append(acc, cur))
    ELSE SplitFrom(Tail(cs), sep, Append(cur, Head(cs)), acc)

\* The fields of a line between occurrences of sep.
Fields(cs, sep) == SplitFrom(cs, sep, <<>>, <<>>)

IsDigits(cs) == cs # <<>> /\ \A i \in 1..Len(cs) : cs[i] \in Range(DigitChars)

DigitValue(c) == (CHOOSE k \in 1..10 : DigitChars[k] = c) - 1

RECURSIVE ReadNat(_, _)
ReadNat(cs, acc) == IF cs = <<>> THEN acc
                    ELSE ReadNat(Tail(cs), 10 * acc + DigitValue(Head(cs)))

\* A decimal numeral with exactly six digits after the point.
IsFixed6(field) ==
    LET parts == Fields(field, ".")
    IN  Len(parts) = 2 /\ IsDigits(parts[1]) /\ IsDigits(parts[2]) /\ Len(parts[2]) = 6

\* Its value in millionths.
Millionths(field) ==
    LET parts == Fields(field, ".")
    IN  ReadNat(parts[1], 0) * 1000000 + ReadNat(parts[2], 0)

Abs(n) == IF n < 0 THEN 0 - n ELSE n

\* m millionths is a nearest six-digit decimal to num / den.
IsNearest(m, num, den) == 2 * Abs(m * den - num * 1000000) <= den

\* The save runs that completed: all three files are from the same run.
Completed(b) == lastSave[b].attempted /\ lastSave[b].error = ""

CompletedYolo(b) ==
    /\ Completed(b)
    /\ lastSave[b].data.annotation_format = YOLO
    /\ lastSave[b].width > 0
    /\ lastSave[b].height > 0

Cat == <<"c", "a", "t">>
Dog == <<"d", "o", "g">>

-----------------------------------------------------------------------------
(* Claims                                                                  *)

C2_NoPartialSiblingWrites ==
    \A b \in BaseNames :
        (lastSave[b].attempted /\ lastSave[b].injected # "none")
        => lastSave[b].written \in {{}, {"json", "image", "txt"}}

\* C3: session isolation: every box and every label choice of a saved
\* record was drawn, respectively made, while the saved image was selected.
C3_SessionIsolation ==
    \A b \in BaseNames :
        (lastSave[b].attempted /\ "json" \in lastSave[b].written)
        => \A i \in 1..Len(lastSave[b].origin) :
              /\ lastSave[b].origin[i].box = lastSave[b].image_name
              /\ lastSave[b].origin[i].label = lastSave[b].image_name

\* C4: in a YOLO export the class index of each line is the 0-based first
\* position of the annotation's label in the label set of the save, and 0
\* when the label is not in the label set.
C4_ClassIndexIsFirstPosition ==
    \A b \in BaseNames :
        CompletedYolo(b) =>
            LET labels == lastSave[b].data.custom_labels
                anns   == lastSave[b].data.annotations
                lines  == txtFiles[b].content
            IN  \A i \in (1..Len(anns)) \cap (1..Len(lines)) :
                    LET first == Fields(lines[i], " ")[1]
                        positions == {k \in 1..Len(labels) : labels[k] = anns[i].label}
                    IN  /\ IsDigits(first)
                        /\ IF positions = {} THEN ReadNat(first, 0) = 0
                           ELSE /\ ReadNat(first, 0) + 1 \in positions
                                /\ \A k \in positions : ReadNat(first, 0) + 1 <= k

\* C4 witness: with labels [cat, dog] a box labelled dog was exported with
\* class index 1.
C4_Witness ==
    \E b \in BaseNames :
        /\ CompletedYolo(b)
        /\ lastSave[b].data.custom_labels = <<Cat, Dog>>
        /\ \E i \in 1..Len(lastSave[b].data.annotations) :
              /\ lastSave[b].data.annotations[i].label = Dog
              /\ Str(Fields(txtFiles[b].content[i], " ")[1]) = "1"

\* C5: a YOLO export for an image of positive width W and height H has one
\* line per annotation, in record order; the line of box (x, y, w, h) has
\* four fields with exactly six decimals that are (x + w/2)/W, (y + h/2)/H,
\* w/W and h/H rounded to that precision; box (10, 20, 100, 50) in a
\* 200 x 100 image gives 0.300000 0.450000 0.500000 0.500000.
C5_YoloLines ==
    \A b \in BaseNames :
        CompletedYolo(b) =>
            LET W     == lastSave[b].width
                H     == lastSave[b].height
                anns  == lastSave[b].data.annotations
                lines == txtFiles[b].content
            IN  /\ Len(lines) = Len(anns)
                /\ \A i \in 1..Len(anns) :
                      LET f == Fields(lines[i], " ")
                          a == anns[i]
                      IN  /\ Len(f) = 5
                          /\ \A k \in 2..5 : IsFixed6(f[k])
                          /\ IsNearest(Millionths(f[2]), 2 * a.x + a.width, 2 * W)
                          /\ IsNearest(Millionths(f[3]), 2 * a.y + a.height, 2 * H)
                          /\ IsNearest(Millionths(f[4]), a.width, W)
                          /\ IsNearest(Millionths(f[5]), a.height, H)
                          /\ (<<a.x, a.y, a.width, a.height, W, H>> = <<10, 20, 100, 50, 200, 100>>
                              => Str(SubSeq(lines[i], Len(f[1]) + 2, Len(lines[i])))
                                 = "0.300000 0.450000 0.500000 0.500000")

\* C5 witness: box (10, 20, 100, 50) was exported as a YOLO line for the
\* 200 x 100 image.
C5_Witness ==
    \E b \in BaseNames :
        /\ CompletedYolo(b)
        /\ lastSave[b].width = 200 /\ lastSave[b].height = 100
        /\ \E i \in 1..Len(lastSave[b].data.annotations) :
              LET a == lastSave[b].data.annotations[i]
              IN  /\ <<a.x, a.y, a.width, a.height>> = <<10, 20, 100, 50>>
                  /\ Len(Fields(txtFiles[b].content[i], " ")) = 5

\* C6: in every saved record each annotation's label is one of the record's
\* custom_labels or, when custom_labels is empty, the literal "object"; and
\* with an empty label set every YOLO class index is 0.
C6_LabelsBelongToLabelSet ==
    \A b \in BaseNames :
        jsonFiles[b].exists =>
            LET record == Load(jsonFiles[b].content)
            IN  /\ \A i \in 1..Len(record.annotations) :
                      \/ record.annotations[i].label \in Range(record.custom_labels)
                      \/ (record.custom_labels = <<>>
                          /\ Str(record.annotations[i].label) = "object")
                /\ (CompletedYolo(b) /\ record.custom_labels = <<>>)
                   => \A i \in 1..Len(txtFiles[b].content) :
                         Str(Fields(txtFiles[b].content[i], " ")[1]) = "0"

\* C6 witness: a record with an empty label set and a box labelled "object"
\* was saved and exported as YOLO.
C6_Witness ==
    \E b \in BaseNames :
        /\ CompletedYolo(b)
        /\ jsonFiles[b].exists
        /\ Load(jsonFiles[b].content).custom_labels = <<>>
        /\ Len(Load(jsonFiles[b].content).annotations) > 0
        /\ Len(txtFiles[b].content) > 0

\* C7: round trip: reading back the JSON file a save wrote gives a record
\* equal to the saved one in every field, labels and annotations in order.
C7_RoundTrip ==
    \A b \in BaseNames :
        (lastSave[b].attempted /\ "json" \in lastSave[b].written)
        => Load(jsonFiles[b].content) = lastSave[b].data

\* C7 witness: a record with two different labels and two different boxes
\* was written.
C7_Witness ==
    \E b \in BaseNames :
        /\ lastSave[b].attempted /\ "json" \in lastSave[b].written
        /\ Len(lastSave[b].data.custom_labels) >= 2
        /\ Len(lastSave[b].data.annotations) = 2
        /\ lastSave[b].data.annotations[1] # lastSave[b].data.annotations[2]
        /\ lastSave[b].data.annotations[1].x # lastSave[b].data.annotations[1].y

\* C8: a Pascal VOC export is the header line followed by one line per
\* annotation, in record order, "Label: <label>, Coordinates: (x: <x>,
\* y: <y>, width: <width>, height: <height>)" with the raw pixel values; it
\* is the same for every image size and every label set.
C8_VocLines ==
    \A b \in BaseNames :
        (Completed(b) /\ lastSave[b].data.annotation_format = PascalVOC) =>
            LET anns  == lastSave[b].data.annotations
                lines == txtFiles[b].content
            IN  /\ Len(lines) = Len(anns) + 1
                /\ Str(lines[1]) = "Pascal VOC annotation summary:"
                /\ \A i \in 1..Len(anns) :
                      Str(lines[i + 1]) =
                          "Label: " \o Str(anns[i].label)
                          \o ", Coordinates: (x: " \o ToString(anns[i].x)
                          \o ", y: " \o ToString(anns[i].y)
                          \o ", width: " \o ToString(anns[i].width)
                          \o ", height: " \o ToString(anns[i].height) \o ")"
                /\ \A i \in 1..Len(anns) :
                      (Str(anns[i].label) = "cat"
                       /\ <<anns[i].x, anns[i].y, anns[i].width, anns[i].height>> = <<5, 5, 20, 30>>)
                      => Str(lines[i + 1])
                         = "Label: cat, Coordinates: (x: 5, y: 5, width: 20, height: 30)"
                /\ \A k \in 1..Len(Uploads), input \in LabelInputs :
                      ExportText(PascalVOC, anns, CustomLabels(input),
                                 Uploads[k].width, Uploads[k].height).lines = lines

\* C8 witness: the box (5, 5, 20, 30) labelled cat was exported as Pascal VOC.
C8_Witness ==
    \E b \in BaseNames :
        /\ Completed(b) /\ lastSave[b].data.annotation_format = PascalVOC
        /\ \E i \in 1..Len(lastSave[b].data.annotations) :
              LET a == lastSave[b].data.annotations[i]
              IN  /\ a.label = Cat
                  /\ <<a.x, a.y, a.width, a.height>> = <<5, 5, 20, 30>>
                  /\ Len(txtFiles[b].content) = Len(lastSave[b].data.annotations) + 1

ImageNamed(n) == Uploads[CHOOSE k \in 1..Len(Uploads) : Uploads[k].name = n]

\* C9: after any sequence of successful saves, <base>.json of an image holds
\* the structured output of the most recent record saved for that image and
\* <base>.txt the export text of that same record.
C9_FilesHoldLatestRecordOfImage ==
    ~anyFailed =>
        \A n \in ImageNames :
            savedFor[n].exists =>
                LET data == savedFor[n].data
                IN  /\ jsonFiles[BaseFilename(n)].content = Dump(data)
                    /\ txtFiles[BaseFilename(n)].content =
                          ExportText(data.annotation_format, data.annotations,
                                     data.custom_labels, ImageNamed(n).width,
                                     ImageNamed(n).height).lines

\* C9 amended: after any sequence of successful saves, <base>.json holds
\* exactly the structured output of the most recent record saved under that
\* base name (images whose names differ only in the extension share the
\* files) and <base>.txt the export text of that same record.
C9_FilesHoldLatestRecordOfBase ==
    ~anyFailed =>
        \A b \in BaseNames :
            lastSave[b].attempted =>
                LET data == lastSave[b].data
                IN  /\ jsonFiles[b] = [exists |-> TRUE, content |-> Dump(data)]
                    /\ txtFiles[b] =
                          [exists |-> TRUE,
                           content |-> ExportText(data.annotation_format, data.annotations,
                                                  data.custom_labels, lastSave[b].width,
                                                  lastSave[b].height).lines]
                    /\ BaseFilename(data.image_name) = b

\* C9 witness: two images of one base name were saved one after the other,
\* with different records, and the files hold the later one.
C9_Witness ==
    /\ ~anyFailed
    /\ \E n, m \in ImageNames :
          /\ n # m /\ BaseFilename(n) = BaseFilename(m)
          /\ savedFor[n].exists /\ savedFor[m].exists
          /\ lastSave[BaseFilename(n)].data = savedFor[m].data
          /\ jsonFiles[BaseFilename(n)].content = Dump(savedFor[m].data)
          /\ jsonFiles[BaseFilename(n)].content # Dump(savedFor[n].data)

\* C10: every line of a YOLO export for an image of positive width and
\* height has its four spatial values within [0, 1].
C10_YoloValuesNormalized ==
    \A b \in BaseNames :
        CompletedYolo(b) =>
            \A i \in 1..Len(txtFiles[b].content) :
                LET f == Fields(txtFiles[b].content[i], " ")
                IN  \A k \in 2..5 : Millionths(f[k]) >= 0 /\ Millionths(f[k]) <= 1000000

====
